---- MODULE Spec2Model ----
(***************************************************************************)
(* Model of mawpy/utilities/identify_home.py: HomeLocationIdentifier.      *)
(* The pipeline run() is a sequence of stages over pandas frames; a frame  *)
(* is modelled as a sequence of records (one record per row, in row        *)
(* order).  A point of the plane is abstracted to a location name, and the *)
(* tract shapefile to the set of locations lying within each tract.        *)
(***************************************************************************)
EXTENDS Integers, Sequences, FiniteSets, TLC

VARIABLES
    start_hour,      \* self.start_hour
    end_hour,        \* self.end_hour
    input_file,      \* rows of the CSV file named by self.input_file
    df,              \* self.df
    night_data,      \* self.night_data
    days_available,  \* self.days_available
    joined,          \* run(): joined
    visit_counts,    \* run(): visit_counts
    home_locations,  \* run(): home_locations
    notices,         \* user ids named by the print of line 134
    output_file,     \* rows written to self.output_file
    error,           \* exception that ended run(), or "none"
    pc               \* position in run()

vars == <<start_hour, end_hour, input_file, df, night_data, days_available,
          joined, visit_counts, home_locations, notices, output_file, error, pc>>

----------------------------------------------------------------------------
(* Bounds of the explored inputs *)

MaxLen == 2
MaxDay == 1
MaxLongDays == 6
MaxThresholdDays == 35

----------------------------------------------------------------------------
(* Inputs *)

Users == {1, 2}

\* Locations of pings, and the tracts of the shapefile: tract 1 and tract 2
\* overlap in "ab"; "out" lies within no tract.
Locs == {"a", "b", "ab", "out"}
GEOIDs == {1, 2}
tracts == [g \in GEOIDs |-> IF g = 1 THEN {"a", "ab"} ELSE {"b", "ab"}]

\* value of a column that has no value in a row (NaN)
NaN == -1

\* frames not yet computed (None)
None == <<>>

SecondsPerHour == 3600
SecondsPerDay == 86400

PingHours == {12, 23}
AllHours == 0 .. 23

PingAt(u, d, h, l) ==
    [user_ID |-> u, unix_start_t |-> d * SecondsPerDay + h * SecondsPerHour, loc |-> l]

Pings == {PingAt(u, d, h, l) : u \in Users, d \in 0 .. MaxDay, h \in PingHours, l \in Locs}

RECURSIVE SeqsUpTo(_, _)
SeqsUpTo(S, n) ==
    IF n = 0 THEN {<<>>}
    ELSE LET shorter == SeqsUpTo(S, n - 1)
         IN  shorter \cup {Append(s, x) : s \in {t \in shorter : Len(t) = n - 1}, x \in S}

\* short traces: any pings in any order
ShortFiles == SeqsUpTo(Pings, MaxLen)

\* long traces: user 1 is seen once every night for n nights
LongFiles ==
    UNION {{[i \in 1 .. n |-> PingAt(1, i - 1, 23, f[i])] : f \in [1 .. n -> Locs]}
           : n \in 5 .. MaxLongDays}

----------------------------------------------------------------------------
(* Helpers on frames *)

RECURSIVE SortedSeq(_)
\* the integers of S in ascending order
SortedSeq(S) ==
    IF S = {} THEN <<>>
    ELSE LET m == CHOOSE x \in S : \A y \in S : x <= y
         IN  <<m>> \o SortedSeq(S \ {m})

RECURSIVE Concat(_)
\* concatenation of a sequence of sequences
Concat(ss) == IF ss = <<>> THEN <<>> ELSE Head(ss) \o Concat(Tail(ss))

Range(s) == {s[i] : i \in 1 .. Len(s)}

----------------------------------------------------------------------------
(* load_data *)

\* pd.to_datetime(unit='s'): the instant as a day number and a time of day
to_datetime(t) == [days |-> t \div SecondsPerDay, secs |-> t % SecondsPerDay]

\* .dt.hour and .dt.date
dt_hour(dt) == dt.secs \div SecondsPerHour
dt_date(dt) == dt.days

ReadCsv(file) ==
    [i \in 1 .. Len(file) |->
        [user_ID |-> file[i].user_ID, loc |-> file[i].loc,
         datetime |-> to_datetime(file[i].unix_start_t)]]

load_data ==
    /\ pc = "init"
    /\ df' = ReadCsv(input_file)
    /\ pc' = "loaded"
    /\ UNCHANGED <<start_hour, end_hour, input_file, night_data, days_available,
                   joined, visit_counts, home_locations, notices, output_file, error>>

----------------------------------------------------------------------------
(* filter_night_time_data *)

\* the window without the wrap over midnight
IsNight_nowrap(start, end, h) == h >= start /\ h < end

IsNight(start, end, h) ==
    IF start < end THEN h >= start /\ h < end
    ELSE h >= start \/ h < end

WithHour(frame) ==
    [i \in 1 .. Len(frame) |->
        [user_ID |-> frame[i].user_ID, loc |-> frame[i].loc,
         datetime |-> frame[i].datetime, hour |-> dt_hour(frame[i].datetime)]]

\* no filtering at all
NightRows_all(frame, start, end) == frame

NightRows(frame, start, end) ==
    SelectSeq(frame, LAMBDA r : IsNight(start, end, r.hour))

filter_night_time_data ==
    /\ pc = "loaded"
    /\ df' = WithHour(df)
    /\ night_data' = NightRows(WithHour(df), start_hour, end_hour)
    /\ pc' = "filtered"
    /\ UNCHANGED <<start_hour, end_hour, input_file, days_available,
                   joined, visit_counts, home_locations, notices, output_file, error>>

----------------------------------------------------------------------------
(* calculate_days_available *)

WithDate(frame) ==
    [i \in 1 .. Len(frame) |->
        [user_ID |-> frame[i].user_ID, loc |-> frame[i].loc,
         datetime |-> frame[i].datetime, hour |-> frame[i].hour,
         date |-> dt_date(frame[i].datetime)]]

\* count() in place of nunique(): every ping of the user counts
nunique_count(frame, u) == Cardinality({j \in 1 .. Len(frame) : frame[j].user_ID = u})

\* groupby('user_ID')['date'].nunique() for one user
nunique(frame, u) ==
    Cardinality({frame[i].date : i \in {j \in 1 .. Len(frame) : frame[j].user_ID = u}})

\* groupby('user_ID')['date'].nunique().reset_index(): one row per user, by user id
DaysByUser(frame) ==
    LET keys == SortedSeq({r.user_ID : r \in Range(frame)})
    IN  [k \in 1 .. Len(keys) |->
            [user_ID |-> keys[k], number_of_days |-> nunique(frame, keys[k])]]

\* self.min_visits_table
table_number_of_days == 5 .. 21
table_min_visits == <<2, 2, 2, 2, 2, 3, 3, 3, 3, 3, 4, 4, 4, 4, 4, 4, 4>>
min_visits_table == [d \in table_number_of_days |-> table_min_visits[d - 4]]

\* merge(min_visits_table, on='number_of_days', how='left') for one row
MergeTable(d) == IF d \in DOMAIN min_visits_table THEN min_visits_table[d] ELSE NaN

\* math.ceil(number_of_days / 7)
CeilWeeks(d) == IF d % 7 = 0 THEN d \div 7 ELSE d \div 7 + 1

\* the lambda of line 79
WeeksOrTable(d, merged) == IF d > 21 THEN CeilWeeks(d) ELSE merged

\* the missing value left in place
FillNa_absent(v) == v

\* fillna(0).astype(int)
FillNa(v) == IF v = NaN THEN 0 ELSE v

min_visits_of(d) == FillNa(WeeksOrTable(d, MergeTable(d)))

\* lines 75-84 on a frame with at least one row
WithMinVisits(frame) ==
    [i \in 1 .. Len(frame) |->
        [user_ID |-> frame[i].user_ID, number_of_days |-> frame[i].number_of_days,
         min_visits |-> min_visits_of(frame[i].number_of_days)]]

\* Line 78 on a frame without rows depends on the pandas release:
\* DataFrame.apply(axis=1) of an empty frame returns a frame before pandas 1.5,
\* and the assignment of that frame to the one column 'min_visits' raises
\* ValueError; from pandas 1.5 on it returns an empty column.
ApplyOutcomes(frame) == IF frame = <<>> THEN {"ValueError", "none"} ELSE {"none"}

calculate_days_available ==
    /\ pc = "filtered"
    /\ night_data' = WithDate(night_data)
    /\ LET counted == DaysByUser(WithDate(night_data))
       IN  \E outcome \in ApplyOutcomes(counted) :
             IF outcome = "none"
             THEN /\ days_available' = WithMinVisits(counted)
                  /\ error' = error
                  /\ pc' = "days"
             ELSE /\ days_available' = counted
                  /\ error' = outcome
                  /\ pc' = "failed"
    /\ UNCHANGED <<start_hour, end_hour, input_file, df,
                   joined, visit_counts, home_locations, notices, output_file>>

\* lines 74-84 alone, on the frame lines 70-72 produced
assign_min_visits ==
    /\ pc = "days_counted"
    /\ days_available' = WithMinVisits(days_available)
    /\ pc' = "days"
    /\ UNCHANGED <<start_hour, end_hour, input_file, df, night_data,
                   joined, visit_counts, home_locations, notices, output_file, error>>

----------------------------------------------------------------------------
(* spatial_join *)

\* the tracts a point lies within
Within(l) == {g \in GEOIDs : l \in tracts[g]}

WithGeoid(r, g) ==
    [user_ID |-> r.user_ID, loc |-> r.loc, datetime |-> r.datetime,
     hour |-> r.hour, date |-> r.date, GEOID |-> g]

\* gpd.sjoin(how='left', predicate='within') for one row: one row per tract
\* the point lies within, and one row without tract when there is none
JoinRow(r) ==
    LET matches == SortedSeq(Within(r.loc))
    IN  IF matches = <<>> THEN <<WithGeoid(r, NaN)>>
        ELSE [k \in 1 .. Len(matches) |-> WithGeoid(r, matches[k])]

sjoin(frame) == Concat([i \in 1 .. Len(frame) |-> JoinRow(frame[i])])

spatial_join ==
    /\ pc = "days"
    /\ joined' = sjoin(night_data)
    /\ pc' = "joined"
    /\ UNCHANGED <<start_hour, end_hour, input_file, df, night_data, days_available,
                   visit_counts, home_locations, notices, output_file, error>>

----------------------------------------------------------------------------
(* count_visits *)

KeyLeq(a, b) == a[1] < b[1] \/ (a[1] = b[1] /\ a[2] <= b[2])

RECURSIVE SortedKeys(_)
\* the (user_ID, GEOID) keys of S in ascending order
SortedKeys(S) ==
    IF S = {} THEN <<>>
    ELSE LET m == CHOOSE x \in S : \A y \in S : KeyLeq(x, y)
         IN  <<m>> \o SortedKeys(S \ {m})

\* groupby(sort=False): the groups come in order of first appearance
GroupKeys_unsorted(frame) ==
    LET rows == SelectSeq(frame, LAMBDA r : r.GEOID # NaN)
        key(i) == <<rows[i].user_ID, rows[i].GEOID>>
        firsts == SortedSeq({i \in 1 .. Len(rows) : \A j \in 1 .. i - 1 : key(j) # key(i)})
    IN  [k \in 1 .. Len(firsts) |-> key(firsts[k])]

\* the group keys of groupby(['user_ID', 'GEOID']): rows without GEOID are
\* dropped, and the groups come in key order
GroupKeys(frame) ==
    SortedKeys({<<r.user_ID, r.GEOID>> : r \in {x \in Range(frame) : x.GEOID # NaN}})

\* .size() of one group
GroupSize(frame, key) ==
    Cardinality({i \in 1 .. Len(frame) :
                    frame[i].user_ID = key[1] /\ frame[i].GEOID = key[2]})

\* merge(self.days_available, on='user_ID', how='left') for one user
DaysRow(days, u) ==
    IF \E i \in 1 .. Len(days) : days[i].user_ID = u
    THEN days[CHOOSE i \in 1 .. Len(days) : days[i].user_ID = u]
    ELSE [user_ID |-> u, number_of_days |-> NaN, min_visits |-> NaN]

VisitCounts(frame, days) ==
    LET keys == GroupKeys(frame)
    IN  [k \in 1 .. Len(keys) |->
            [user_ID |-> keys[k][1], GEOID |-> keys[k][2],
             visit_count |-> GroupSize(frame, keys[k]),
             number_of_days |-> DaysRow(days, keys[k][1]).number_of_days,
             min_visits |-> DaysRow(days, keys[k][1]).min_visits]]

count_visits ==
    /\ pc = "joined"
    /\ visit_counts' = VisitCounts(joined, days_available)
    /\ pc' = "counted"
    /\ UNCHANGED <<start_hour, end_hour, input_file, df, night_data, days_available,
                   joined, home_locations, notices, output_file, error>>

----------------------------------------------------------------------------
(* filter_home_locations *)

\* '>' in place of '>='
Qualifying_strict(vc) ==
    {i \in 1 .. Len(vc) : vc[i].min_visits # NaN /\ vc[i].visit_count > vc[i].min_visits}

\* row labels of visit_counts whose row passes line 127
Qualifying(vc) ==
    {i \in 1 .. Len(vc) : vc[i].min_visits # NaN /\ vc[i].visit_count >= vc[i].min_visits}

FrameUsers(vc, labels) == {vc[i].user_ID : i \in labels}

\* lines 130-132
UsersWithoutHome(vc) ==
    FrameUsers(vc, 1 .. Len(vc)) \ FrameUsers(vc, Qualifying(vc))

\* the first row of the group, whatever its visit_count
idxmax_first(vc, labels) == CHOOSE i \in labels : \A j \in labels : i <= j

\* idxmax of one group: the first row label holding the largest visit_count
idxmax(vc, labels) ==
    CHOOSE i \in labels :
        /\ \A j \in labels : vc[j].visit_count <= vc[i].visit_count
        /\ \A j \in labels : vc[j].visit_count = vc[i].visit_count => i <= j

\* groupby('user_ID')['visit_count'].idxmax(): one label per user, by user id
HomeLabels(vc) ==
    LET q == Qualifying(vc)
        keys == SortedSeq(FrameUsers(vc, q))
    IN  [k \in 1 .. Len(keys) |-> idxmax(vc, {i \in q : vc[i].user_ID = keys[k]})]

\* lines 137-139
HomeLocations(vc) ==
    LET labels == HomeLabels(vc)
    IN  [k \in 1 .. Len(labels) |->
            [user_ID |-> vc[labels[k]].user_ID, GEOID |-> vc[labels[k]].GEOID,
             number_of_days |-> vc[labels[k]].number_of_days,
             visit_count |-> vc[labels[k]].visit_count]]

filter_home_locations ==
    /\ pc = "counted"
    /\ notices' = UsersWithoutHome(visit_counts)
    /\ home_locations' = HomeLocations(visit_counts)
    /\ pc' = "selected"
    /\ UNCHANGED <<start_hour, end_hour, input_file, df, night_data, days_available,
                   joined, visit_counts, output_file, error>>

----------------------------------------------------------------------------
(* save_results *)

save_results ==
    /\ pc = "selected"
    /\ output_file' = home_locations
    /\ pc' = "done"
    /\ UNCHANGED <<start_hour, end_hour, input_file, df, night_data, days_available,
                   joined, visit_counts, home_locations, notices, error>>

----------------------------------------------------------------------------
(* run *)

\* the whole pipeline as a function of the input file
Pipeline(file, start, end) ==
    LET night == WithDate(NightRows(WithHour(ReadCsv(file)), start, end))
    IN  HomeLocations(VisitCounts(sjoin(night), WithMinVisits(DaysByUser(night))))

Constructed(start, end, file) ==
    /\ start_hour = start
    /\ end_hour = end
    /\ input_file = file
    /\ df = None
    /\ night_data = None
    /\ days_available = None
    /\ joined = None
    /\ visit_counts = None
    /\ home_locations = None
    /\ notices = {}
    /\ output_file = None
    /\ error = "none"
    /\ pc = "init"

Init == \E file \in ShortFiles \cup LongFiles : Constructed(22, 6, file)

Next ==
    \/ load_data
    \/ filter_night_time_data
    \/ calculate_days_available
    \/ spatial_join
    \/ count_visits
    \/ filter_home_locations
    \/ save_results

Spec == Init /\ [][Next]_vars

\* the pipeline on short traces only
InitOrder == \E file \in ShortFiles : Constructed(22, 6, file)

SpecOrder == InitOrder /\ [][Next]_vars

\* the pipeline under every night window: a ping of user 1 at any hour,
\* alone or followed by a ping of user 2
NightFiles ==
    {<<PingAt(1, 0, h, "a")>> : h \in AllHours}
    \cup {<<PingAt(1, 0, h, "a"), PingAt(2, 0, g, "b")>> : h \in AllHours, g \in PingHours}

InitNight ==
    \E start \in AllHours, end \in AllHours, file \in NightFiles :
        Constructed(start, end, file)

SpecNight == InitNight /\ [][Next]_vars

\* the threshold policy on frames of day counts
DayCountFrames ==
    {<<[user_ID |-> 1, number_of_days |-> d]>> : d \in 0 .. MaxThresholdDays}
    \cup {<<[user_ID |-> 1, number_of_days |-> d], [user_ID |-> 2, number_of_days |-> e]>>
            : d \in 0 .. MaxThresholdDays, e \in 0 .. MaxThresholdDays}

InitThreshold ==
    /\ start_hour = 22
    /\ end_hour = 6
    /\ input_file = None
    /\ df = None
    /\ night_data = None
    /\ days_available \in DayCountFrames
    /\ joined = None
    /\ visit_counts = None
    /\ home_locations = None
    /\ notices = {}
    /\ output_file = None
    /\ error = "none"
    /\ pc = "days_counted"

NextThreshold == assign_min_visits

SpecThreshold == InitThreshold /\ [][NextThreshold]_vars

----------------------------------------------------------------------------
(* Properties.  The expected values are stated on the input file itself.   *)

HourOfPing(p) == (p.unix_start_t \div SecondsPerHour) % 24
DateOfPing(p) == p.unix_start_t \div SecondsPerDay

\* the night window as the specification words it
InWindow(h) ==
    \/ start_hour < end_hour /\ start_hour <= h /\ h < end_hour
    \/ start_hour >= end_hour /\ (h >= start_hour \/ h < end_hour)

\* positions of the nighttime pings of user u in the input file
NightPings(u) ==
    {i \in 1 .. Len(input_file) :
        input_file[i].user_ID = u /\ InWindow(HourOfPing(input_file[i]))}

Rows(frame) == {frame[i] : i \in 1 .. Len(frame)}
RowsOf(frame, u) == {i \in 1 .. Len(frame) : frame[i].user_ID = u}

RECURSIVE SumVisits(_, _)
SumVisits(frame, labels) ==
    IF labels = {} THEN 0
    ELSE LET i == CHOOSE x \in labels : TRUE
         IN  frame[i].visit_count + SumVisits(frame, labels \ {i})

AfterDays == pc \in {"days", "joined", "counted", "selected", "done"}
AfterCount == pc \in {"counted", "selected", "done"}
AfterSelect == pc \in {"selected", "done"}

\* the threshold table of the specification
ExpectedMinVisits(d) ==
    IF d <= 4 THEN 0
    ELSE IF d <= 9 THEN 2
    ELSE IF d <= 14 THEN 3
    ELSE IF d <= 21 THEN 4
    ELSE CHOOSE n \in 0 .. d : 7 * n >= d /\ 7 * (n - 1) < d

\* C1: every coverage record carries min_visits = 0 for 0..4 days, 2 for 5..9,
\* 3 for 10..14, 4 for 15..21 and ceil(days / 7) above 21, a non-negative
\* integer that is never missing.
C1_ThresholdPolicy ==
    pc = "days" =>
        \A r \in Rows(days_available) :
            /\ r.min_visits # NaN
            /\ r.min_visits \in Nat
            /\ r.min_visits = ExpectedMinVisits(r.number_of_days)

C1_Witness ==
    /\ pc = "days"
    /\ \E r \in Rows(days_available) : r.number_of_days = 30 /\ r.min_visits = 5
    /\ \E r \in Rows(days_available) : r.number_of_days = 3 /\ r.min_visits = 0

\* C2: every output row names a zone of the user whose visit_count reaches the
\* user's min_visits and is at least the visit_count of every other zone of
\* that user, and no user has two output rows.
C2_HomeIsQualifyingMaximum ==
    AfterSelect =>
        /\ \A h \in Rows(home_locations) :
              /\ \E v \in Rows(visit_counts) :
                    /\ v.user_ID = h.user_ID /\ v.GEOID = h.GEOID
                    /\ v.visit_count = h.visit_count
                    /\ v.visit_count >= v.min_visits
              /\ \A v \in Rows(visit_counts) :
                    v.user_ID = h.user_ID => v.visit_count <= h.visit_count
        /\ \A i, j \in 1 .. Len(home_locations) :
              home_locations[i].user_ID = home_locations[j].user_ID => i = j

C2_Witness ==
    /\ pc = "done"
    /\ \E h \in Rows(home_locations) :
          /\ h.visit_count = 3
          /\ \E v \in Rows(visit_counts) :
                /\ v.user_ID = h.user_ID /\ v.GEOID < h.GEOID
                /\ v.visit_count = 2 /\ v.min_visits = 2

\* C3: every user with nighttime pings and no home assignment is named by an
\* unmet-threshold notice, also when all the user's nighttime pings lie
\* outside every zone.
C3_EveryHomelessNightUserNoticed ==
    AfterSelect =>
        \A u \in Users :
            (NightPings(u) # {} /\ RowsOf(home_locations, u) = {}) => u \in notices

\* C4: a user has exactly one output row iff one of the user's zones reaches
\* the user's min_visits; the row carries the user's number_of_days and the
\* largest visit_count; a user with fewer than 5 observed days and a nighttime
\* ping within a zone always has a row.
C4_RowIffQualifyingZone ==
    AfterSelect =>
        \A u \in Users :
            LET qualifies == \E v \in Rows(visit_counts) :
                                v.user_ID = u /\ v.visit_count >= v.min_visits
                days == Cardinality({DateOfPing(input_file[i]) : i \in NightPings(u)})
            IN  /\ qualifies <=> Cardinality(RowsOf(home_locations, u)) = 1
                /\ ~qualifies => RowsOf(home_locations, u) = {}
                /\ \A i \in RowsOf(home_locations, u) :
                      /\ home_locations[i].number_of_days = days
                      /\ \E v \in Rows(visit_counts) :
                            v.user_ID = u /\ v.visit_count = home_locations[i].visit_count
                      /\ \A v \in Rows(visit_counts) :
                            v.user_ID = u => v.visit_count <= home_locations[i].visit_count
                /\ (days < 5 /\ \E i \in NightPings(u) : Within(input_file[i].loc) # {})
                      => RowsOf(home_locations, u) # {}

C4_Witness ==
    /\ pc = "done"
    /\ \E h \in Rows(home_locations) : h.number_of_days = 5 /\ h.visit_count = 2
    /\ \E v \in Rows(visit_counts) : v.visit_count < v.min_visits

\* ping i of the input file has a row in night_data
Kept(i) ==
    \E r \in Rows(night_data) :
        /\ r.user_ID = input_file[i].user_ID
        /\ r.loc = input_file[i].loc
        /\ r.datetime.days * SecondsPerDay + r.datetime.secs = input_file[i].unix_start_t

\* C5: a ping is kept as nighttime iff its hour lies in the window, which
\* wraps midnight when start >= end; under the window (22, 6) hours 23 and 5
\* are night and hours 6 and 21 are day; no daytime ping reaches a later stage.
C5_NightWindow ==
    pc \notin {"init", "loaded"} =>
        /\ Len(night_data) = Cardinality(UNION {NightPings(u) : u \in Users})
        /\ \A i \in 1 .. Len(input_file) : InWindow(HourOfPing(input_file[i])) <=> Kept(i)
        /\ (start_hour = 22 /\ end_hour = 6) =>
              \A i \in 1 .. Len(input_file) :
                  /\ HourOfPing(input_file[i]) \in {23, 5} => Kept(i)
                  /\ HourOfPing(input_file[i]) \in {6, 21} => ~Kept(i)
        /\ \A r \in Rows(joined) : InWindow(r.hour)
        /\ \A r \in Rows(days_available) \cup Rows(visit_counts) \cup Rows(home_locations) :
              NightPings(r.user_ID) # {}

C5_Witness ==
    /\ pc = "done"
    /\ start_hour = 22 /\ end_hour = 6
    /\ HourOfPing(input_file[1]) = 5
    /\ Len(input_file) = 2 /\ HourOfPing(input_file[2]) = 12
    /\ Len(night_data) = 1 /\ Len(home_locations) = 1

\* C6: number_of_days of a user is the number of distinct dates among all the
\* user's nighttime pings, within a zone or not; a user whose nighttime pings
\* all lie outside every zone has a coverage record, no visit count and no home.
C6_DistinctNightDates ==
    /\ AfterDays =>
          \A u \in Users :
              NightPings(u) # {} =>
                  /\ Cardinality(RowsOf(days_available, u)) = 1
                  /\ \A i \in RowsOf(days_available, u) :
                        days_available[i].number_of_days =
                            Cardinality({DateOfPing(input_file[j]) : j \in NightPings(u)})
    /\ \A u \in Users :
          (NightPings(u) # {} /\ \A j \in NightPings(u) : Within(input_file[j].loc) = {})
              => /\ AfterCount => RowsOf(visit_counts, u) = {}
                 /\ AfterSelect => RowsOf(home_locations, u) = {}

C6_Witness ==
    /\ pc = "done"
    /\ Cardinality(NightPings(1)) = 2
    /\ \A j \in NightPings(1) : input_file[j].loc = "out"
    /\ \E r \in Rows(days_available) : r.user_ID = 1 /\ r.number_of_days = 1
    /\ RowsOf(visit_counts, 1) = {}

\* C7: a user without nighttime pings has no coverage record, no visit count,
\* no home assignment and no unmet-threshold notice.
C7_DayOnlyUserLeavesNoTrace ==
    \A u \in Users :
        NightPings(u) = {} =>
            /\ RowsOf(days_available, u) = {}
            /\ RowsOf(visit_counts, u) = {}
            /\ RowsOf(home_locations, u) = {}
            /\ u \notin notices

C7_Witness ==
    /\ pc = "done"
    /\ \E i \in 1 .. Len(input_file) : input_file[i].user_ID = 1
    /\ NightPings(1) = {}
    /\ RowsOf(home_locations, 2) # {}

\* C8: with no ping, or no ping inside the night window, every stage completes
\* without raising and the result table is empty.
C8_EmptyInputCompletes ==
    (\A u \in Users : NightPings(u) = {}) =>
        /\ error = "none"
        /\ pc # "failed"
        /\ pc = "done" => output_file = <<>>

\* C9: among the qualifying zones of a user that tie for the largest
\* visit_count the home is the one with the smallest identifier, and the
\* result is the same for every permutation of the input pings.
C9_TieBreakIsOrderIndependent ==
    AfterSelect =>
        /\ \A h \in Rows(home_locations) :
              \A v \in Rows(visit_counts) :
                  (v.user_ID = h.user_ID /\ v.visit_count = h.visit_count)
                      => h.GEOID <= v.GEOID
        /\ \A perm \in Permutations(1 .. Len(input_file)) :
              Pipeline([i \in 1 .. Len(input_file) |-> input_file[perm[i]]],
                       start_hour, end_hour) = home_locations

C9_Witness ==
    /\ pc = "done"
    /\ Len(input_file) = 2
    /\ input_file[1].loc = "b" /\ input_file[2].loc = "a"
    /\ Len(visit_counts) = 2
    /\ visit_counts[1].user_ID = visit_counts[2].user_ID
    /\ Len(home_locations) = 1 /\ home_locations[1].GEOID = 1

\* C10: every nighttime ping is counted for at most one zone: the visit
\* counts of a user sum to at most the number of the user's nighttime pings.
C10_PingCountedOnce ==
    AfterCount =>
        \A u \in Users :
            SumVisits(visit_counts, RowsOf(visit_counts, u)) <= Cardinality(NightPings(u))

====
